---- MODULE Spec2Model ----
(***************************************************************************)
(* A model of SocketBase (src/SocketBase.py): the layered endpoint with    *)
(* buffered output (layer 1), length-prefixed messages (layer 2), vector   *)
(* messages (layer 3) and the I/O modes Block, Async, Callback and Discard *)
(* (layer 4), together with the callers of scss.py, tcss.py and accss.py.  *)
(***************************************************************************)
EXTENDS Integers, Sequences, FiniteSets, TLC

(***************************************************************************)
(* Bounds of the model.                                                    *)
(***************************************************************************)
\* number of layer-2 messages the peer frames in SpecFrame
MaxFrames == 3
\* longest layer-2 payload the peer frames in SpecFrame
MaxPayload == 2
\* number of sendVectorMessageWithMode4 calls started on the endpoint in Spec
MaxSends == 2
\* number of vector messages the peer sends in Spec
MaxPeerMsgs == 2

(***************************************************************************)
(* Program constants.                                                      *)
(***************************************************************************)
\* struct.calcsize('>I')
hdrsz == 4
\* the buffer size handed to sock.recv
RecvBufSize == 4096

\* struct.calcsize('>QQ')
vhdrsz == 16
\* class IOMode
Block == 0
Async == 1
Callback == 2
Discard == 3

\* Python's None where an integer is expected (inbuf_cursz, rvector)
None == -1

\* Python's None where a (vector, rvector, msg) tuple is expected
NoneMsg == <<>>

\* the caller threads of the endpoint (tcss.py starts several, accss.py one)
Threads == {1, 2}

\* the sizes a read of the stream comes back with in Spec: a short read that
\* ends inside the vector header, and a full one
RecvSizes4 == {12, RecvBufSize}

\* the payload of a request (one work byte) and of the peer's messages
WorkItem == <<65>>

PeerItem == <<66>>

\* the payload bytes the peer draws from
PayloadBytes == {65, 66}

\* the sizes a read of the stream may come back with (a short read, a full one)
RecvSizes == {1, 3, RecvBufSize}

Min(a, b) == IF a < b THEN a ELSE b

Drop(s, n) == SubSeq(s, n + 1, Len(s))

Take(s, n) == SubSeq(s, 1, n)

(***************************************************************************)
(* struct.pack / struct.unpack of a big-endian unsigned 32-bit integer.    *)
(***************************************************************************)
PackI(n) ==
  << (n \div 16777216) % 256, (n \div 65536) % 256, (n \div 256) % 256, n % 256 >>

UnpackI(b) == b[1] * 16777216 + b[2] * 65536 + b[3] * 256 + b[4]

(***************************************************************************)
(* Layer 2: sendMessage2 frames a message as length prefix + payload.      *)
(***************************************************************************)
Frame2(msg) == PackI(Len(msg)) \o msg

(***************************************************************************)
(* Layer 2: the receive assembler.                                         *)
(*   inbuf        the bytes of the BytesIO accumulator (its position is    *)
(*                always at the end between calls)                         *)
(*   inbuf_cursz  None while the header is being read, else the payload    *)
(*                size of the message being read                           *)
(***************************************************************************)
VARIABLES inbuf, inbuf_cursz

(***************************************************************************)
(* The peer's stream towards the endpoint.                                 *)
(*   sock_in   bytes the peer has written and the endpoint has not read    *)
(***************************************************************************)
VARIABLES sock_in

(***************************************************************************)
(* Observation of the layer-2 callers (scss.py).                           *)
(*   sent2   the payloads the peer framed, in order                        *)
(*   got2    the payloads getMessage2 returned, in order                   *)
(*   ret2    what the last getMessage2 call returned                       *)
(*   call2   the last layer-2 call and the assembler state it started from *)
(***************************************************************************)
VARIABLES sent2, got2, ret2, call2

\* the return value of getMessage2: nothing, or a message (possibly empty)
Nothing == [some |-> FALSE, val |-> <<>>]

Some(m) == [some |-> TRUE, val |-> m]

\* "do we have enough to read the header?" as a bug would have it: never
\* with exactly the header buffered and never with one byte more either
HeaderReadableLate(tell) == tell > hdrsz + 1

\* "do we have enough to read the header?"
HeaderReadable(tell) == tell > hdrsz

\* the size getMessage2 works with after its header step
HeaderStep(buf, cursz) ==
  IF cursz = None /\ HeaderReadable(Len(buf))
    THEN UnpackI(Take(buf, hdrsz))
    ELSE cursz

\* getMessage2(data): data is a byte sequence (<<>> for data = None, which
\* writes nothing either).  Yields the new assembler state and the return value.
getMessage2(buf, cursz, data) ==
  LET b  == buf \o data
      sz == HeaderStep(b, cursz)
  IN  IF sz = None
        THEN [inbuf |-> b, cursz |-> None, ret |-> Nothing]
      ELSE IF Len(b) - hdrsz >= sz
        THEN [inbuf |-> Drop(b, hdrsz + sz),
              cursz |-> None,
              ret   |-> Some(SubSeq(b, hdrsz + 1, hdrsz + sz))]
      ELSE [inbuf |-> b, cursz |-> sz, ret |-> Nothing]

\* getAllMessages2(data): getMessage2 until it returns None
RECURSIVE getAllMessages2(_, _, _)
getAllMessages2(buf, cursz, data) ==
  LET r == getMessage2(buf, cursz, data)
  IN  IF ~r.ret.some
        THEN [inbuf |-> r.inbuf, cursz |-> r.cursz, msgs |-> <<>>]
        ELSE LET rest == getAllMessages2(r.inbuf, r.cursz, <<>>)
             IN  [inbuf |-> rest.inbuf, cursz |-> rest.cursz,
                  msgs  |-> <<r.ret.val>> \o rest.msgs]

(***************************************************************************)
(* Layer 3: vector messages.  struct.pack('>QQ', vector, rvector): every   *)
(* vector of the model is below 2^31, so the high 32 bits of each field    *)
(* are zero.                                                               *)
(***************************************************************************)
PackQ(n) == PackI(0) \o PackI(n)

UnpackQ(b) == UnpackI(SubSeq(b, 5, 8))

\* the layer-2 payload sendVectorMessage3 hands to sendMessage2
VectorPayload(vec, rvec, msg) == PackQ(vec) \o PackQ(rvec) \o msg

\* getVectorMessage3 on a layer-2 message: (vector, rvector, msg)
SplitVector(m) ==
  << UnpackQ(SubSeq(m, 1, 8)), UnpackQ(SubSeq(m, 9, 16)), Drop(m, vhdrsz) >>

\* getAllVectorMessages3(data): the assembler state and the list of tuples
getAllVectorMessages3(buf, cursz, data) ==
  LET r == getAllMessages2(buf, cursz, data)
  IN  [inbuf |-> r.inbuf, cursz |-> r.cursz,
       msgs  |-> [i \in 1..Len(r.msgs) |-> SplitVector(r.msgs[i])]]

(***************************************************************************)
(* The endpoint (SocketBase.__init__).                                     *)
(*   vector      the next send vector                                      *)
(*   keepresult  vector -> None or the stored reply (Block, Async)         *)
(*   callback    vector -> the userdata of the registered callback         *)
(*   socklock    RLock: owner (0 when free) and recursion count            *)
(*   vectorlock  RLock: owner (0 when free) and recursion count            *)
(*   slowlock    Lock: "free", or held by the latency thread               *)
(*   slow        chunks handed to send1, waiting for the latency thread    *)
(*   oubuf       the output deque                                          *)
(*   oubufsz     the output size counter                                   *)
(***************************************************************************)
VARIABLES vector, keepresult, callback, socklock, vectorlock, slowlock,
          slow, oubuf, oubufsz

(***************************************************************************)
(* The socket and the peer.                                                *)
(*   sock_state   "open", "eof" (the peer closed) or "exc" (exceptional    *)
(*                condition pending)                                       *)
(*   sock_out     the bytes written to the socket                          *)
(*   peer_vector  the peer endpoint's own send vector                      *)
(***************************************************************************)
VARIABLES sock_state, sock_out, peer_vector

(***************************************************************************)
(* The threads.                                                            *)
(*   th    per caller thread: its position and the locals of the call, and *)
(*         (hit) whether the reply it awaits was stored when it called     *)
(*   lat   the latency thread: its position and the locals of __send1      *)
(***************************************************************************)
VARIABLES th, lat

(***************************************************************************)
(* Observation.                                                            *)
(*   enq      the chunks handed to send1 by sendVectorMessage3, in order,  *)
(*            with the sender's registration at that moment                *)
(*   disp     the vector messages the dispatcher processed, in order, each *)
(*            with whether keepresult had an entry for its rvector then    *)
(*   cbcalls  the callback invocations, in order, with their arguments     *)
(*   rets     the messages handleVectorMessages4 returned                  *)
(*   connlog  the zero-length reads of handleVectorMessages4, each with    *)
(*            whether ConnectionLostException reached the caller for it,   *)
(*            and the misuses of sendVectorMessageWithMode4, each with     *)
(*            whether the exception reached the caller                     *)
(***************************************************************************)
VARIABLES enq, disp, cbcalls, rets, connlog

framevars == <<inbuf, inbuf_cursz, sock_in, sent2, got2, ret2, call2>>

endvars == <<vector, keepresult, callback, socklock, vectorlock, slowlock,
             slow, oubuf, oubufsz>>

peervars == <<sock_state, sock_out, peer_vector>>

obsvars == <<enq, disp, cbcalls, rets, connlog>>

obs2vars == <<sent2, got2, ret2, call2>>

vars == <<inbuf, inbuf_cursz, sock_in, sent2, got2, ret2, call2,
          vector, keepresult, callback, socklock, vectorlock, slowlock,
          slow, oubuf, oubufsz, sock_state, sock_out, peer_vector, th, lat,
          enq, disp, cbcalls, rets, connlog>>

FreeLock == [owner |-> 0, count |-> 0]

\* RLock.acquire as a bug would have it: the lock excludes nobody
CanAcquireAlways(lock, t) == TRUE

\* RLock.acquire by thread t succeeds when free or already owned by t
CanAcquire(lock, t) == lock.owner = 0 \/ lock.owner = t

Acquire(lock, t) == [owner |-> t, count |-> lock.count + 1]

\* RLock.release by its owner
Release(lock) ==
  IF lock.count = 1 THEN FreeLock ELSE [lock EXCEPT !.count = @ - 1]

\* a thread outside any call
IdleThread ==
  [pc |-> "idle", mode |-> None, vector |-> None, rvector |-> None,
   block |-> FALSE, release |-> FALSE, ret |-> NoneMsg, msgs |-> <<>>,
   hit |-> FALSE]

IdleLatency == [pc |-> "sleep", data |-> <<>>, totalsent |-> 0]

InitEndpoint ==
  /\ vector = 0
  /\ keepresult = <<>>
  /\ callback = <<>>
  /\ socklock = FreeLock
  /\ vectorlock = FreeLock
  /\ slowlock = "free"
  /\ slow = <<>>
  /\ oubuf = <<>>
  /\ oubufsz = 0
  /\ sock_state = "open"
  /\ sock_out = <<>>
  /\ peer_vector = 0
  /\ th = [t \in Threads |-> IdleThread]
  /\ lat = IdleLatency
  /\ enq = <<>>
  /\ disp = <<>>
  /\ cbcalls = <<>>
  /\ rets = {}
  /\ connlog = {}

\* all payloads of length 0..MaxPayload over PayloadBytes
Payloads == UNION {[1..n -> PayloadBytes] : n \in 0..MaxPayload}

NoCall == [op |-> "none", cursz |-> None, tell |-> 0]

InitFrame ==
  /\ inbuf = <<>>
  /\ inbuf_cursz = None
  /\ sock_in = <<>>
  /\ sent2 = <<>>
  /\ got2 = <<>>
  /\ ret2 = Nothing
  /\ call2 = NoCall
  /\ InitEndpoint

\* the peer's sendMessage2(msg): the frame reaches the stream as a whole
PeerSendMessage2 ==
  \E msg \in Payloads :
    /\ Len(sent2) < MaxFrames
    /\ sock_in' = sock_in \o Frame2(msg)
    /\ sent2' = Append(sent2, msg)
    /\ UNCHANGED <<inbuf, inbuf_cursz, got2, ret2, call2>>
    /\ UNCHANGED <<endvars, peervars, th, lat, obsvars>>

\* data = sock.recv(n); for msg in getAllMessages2(data): ...
RecvAll2 ==
  \E n \in RecvSizes :
    /\ sock_in # <<>>
    /\ LET data == Take(sock_in, Min(n, Len(sock_in)))
           r    == getAllMessages2(inbuf, inbuf_cursz, data)
       IN  /\ sock_in' = Drop(sock_in, Len(data))
           /\ inbuf' = r.inbuf
           /\ inbuf_cursz' = r.cursz
           /\ got2' = got2 \o r.msgs
           /\ ret2' = Nothing
           /\ call2' = [op |-> "getAllMessages2", cursz |-> inbuf_cursz,
                        tell |-> Len(inbuf) + Len(data)]
    /\ UNCHANGED sent2
    /\ UNCHANGED <<endvars, peervars, th, lat, obsvars>>

\* data = sock.recv(n); msg = getMessage2(data)
RecvOne2 ==
  \E n \in RecvSizes :
    /\ sock_in # <<>>
    /\ LET data == Take(sock_in, Min(n, Len(sock_in)))
           r    == getMessage2(inbuf, inbuf_cursz, data)
       IN  /\ sock_in' = Drop(sock_in, Len(data))
           /\ inbuf' = r.inbuf
           /\ inbuf_cursz' = r.cursz
           /\ got2' = IF r.ret.some THEN Append(got2, r.ret.val) ELSE got2
           /\ ret2' = r.ret
           /\ call2' = [op |-> "getMessage2", cursz |-> inbuf_cursz,
                        tell |-> Len(inbuf) + Len(data)]
    /\ UNCHANGED sent2
    /\ UNCHANGED <<endvars, peervars, th, lat, obsvars>>

\* msg = getMessage2() with no new data
PollOne2 ==
  /\ LET r == getMessage2(inbuf, inbuf_cursz, <<>>)
     IN  /\ inbuf' = r.inbuf
         /\ inbuf_cursz' = r.cursz
         /\ got2' = IF r.ret.some THEN Append(got2, r.ret.val) ELSE got2
         /\ ret2' = r.ret
         /\ call2' = [op |-> "getMessage2", cursz |-> inbuf_cursz,
                      tell |-> Len(inbuf)]
  /\ UNCHANGED <<sock_in, sent2>>
  /\ UNCHANGED <<endvars, peervars, th, lat, obsvars>>

NextFrame ==
  \/ PeerSendMessage2
  \/ RecvAll2
  \/ RecvOne2
  \/ PollOne2

SpecFrame == InitFrame /\ [][NextFrame]_vars

(***************************************************************************)
(* Layer 4, sending: sendVectorMessageWithMode4 and sendVectorMessage3.    *)
(***************************************************************************)
\* dict[k] = v
Put(f, k, v) == [x \in (DOMAIN f) \cup {k} |-> IF x = k THEN v ELSE f[x]]

\* del dict[k]
Del(f, k) == [x \in (DOMAIN f) \ {k} |-> f[x]]

\* the calls of sendVectorMessageWithMode4 started so far
SendsStarted ==
  Len(enq) + Cardinality({u \in Threads : th[u].pc \in {"reg", "s3"}})

\* self.vector = self.vector + 1 as a bug would have it: the counter stays
NextVectorStuck(v) == v

\* self.vector = self.vector + 1
NextVector(v) == v + 1

\* sendVectorMessageWithMode4, "vector = self.vector": the counter is read
\* before any lock is taken.  Discard goes straight to sendVectorMessage3.
StartSend(t) ==
  \E mode \in {Block, Async, Callback, Discard} :
    /\ th[t].pc = "idle"
    /\ SendsStarted < MaxSends
    /\ th' = [th EXCEPT ![t] =
                [IdleThread EXCEPT !.pc = IF mode = Discard THEN "s3" ELSE "reg",
                                   !.mode = mode,
                                   !.vector = vector]]
    /\ UNCHANGED <<framevars, endvars, peervars, lat, obsvars>>

\* a mode that is none of the four of IOMode
Unknown == Discard + 1

\* the Callback branch as a bug would have it: the entry is inserted before
\* the callback argument is looked at
CallbackUnchecked(cb, v, ud) == Put(cb, v, ud)

\* the Callback branch, "if callback is None: raise Exception(...)" and then
\* "self.callback[vector] = callback": the table it leaves
CallbackChecked(cb, v, ud) == IF ud = None THEN cb ELSE Put(cb, v, ud)

\* the branches that insert into keepresult: Async (line 236) and, after the
\* test "if mode != IOMode.Block: raise Exception(...)", Block (line 253)
KeepChecked(kr, v, mode) ==
  IF mode \in {Async, Block} THEN Put(kr, v, NoneMsg) ELSE kr

\* "self.keepresult[vector] = None" (Async, Block) or
\* "self.callback[vector] = callback" (Callback), before the send
Register(t) ==
  /\ th[t].pc = "reg"
  /\ IF th[t].mode = Callback
       THEN /\ callback' = CallbackChecked(callback, th[t].vector, t)
            /\ UNCHANGED keepresult
       ELSE /\ keepresult' = Put(keepresult, th[t].vector, NoneMsg)
            /\ UNCHANGED callback
  /\ th' = [th EXCEPT ![t].pc = "s3"]
  /\ UNCHANGED <<framevars, vector, socklock, vectorlock, slowlock, slow, oubuf,
                 oubufsz, peervars, lat, obsvars>>

\* sendVectorMessageWithMode4 called with mode Callback and callback = None,
\* or with a mode that is not one of IOMode: "vector = self.vector", the
\* branches up to the raise, and the exception reaching the caller.  The
\* call touches no lock and sends nothing.
SendMisuse(t) ==
  \E mode \in {Callback, Unknown} :
    /\ th[t].pc = "idle"
    /\ callback' = IF mode = Callback
                     THEN CallbackChecked(callback, vector, None)
                     ELSE callback
    /\ keepresult' = KeepChecked(keepresult, vector, mode)
    /\ connlog' = connlog \cup {[cause |-> "misuse", raised |-> TRUE]}
    /\ UNCHANGED <<framevars, vector, socklock, vectorlock, slowlock, slow,
                   oubuf, oubufsz, peervars, th, lat, enq, disp, cbcalls, rets>>

\* whether the table holds the entry a send of this mode needs under key v
HasEntry(mode, v) ==
  IF mode = Callback THEN v \in DOMAIN callback
  ELSE IF mode = Discard THEN FALSE
  ELSE v \in DOMAIN keepresult

\* sendVectorMessage3: "with self.vectorlock:" and, under it,
\* sendMessage2(struct.pack('>QQ', self.vector, rvector) + msg), which is
\* send1(length prefix + payload): under slowlock the chunk joins self.slow
S3Enqueue(t) ==
  /\ th[t].pc = "s3"
  /\ CanAcquire(vectorlock, t)
  /\ slowlock = "free"
  /\ vectorlock' = Acquire(vectorlock, t)
  /\ LET chunk == Frame2(VectorPayload(vector, 0, WorkItem))
     IN  /\ slow' = Append(slow, chunk)
         /\ enq' = Append(enq, [t    |-> t,
                                mode |-> th[t].mode,
                                reg  |-> th[t].vector,
                                fv   |-> vector,
                                had  |-> HasEntry(th[t].mode, vector),
                                data |-> chunk])
  /\ th' = [th EXCEPT ![t].pc = "s3_inc"]
  /\ UNCHANGED <<framevars, vector, keepresult, callback, socklock,
                 slowlock, oubuf, oubufsz, peervars, lat, disp, cbcalls, rets,
                 connlog>>

\* the first statement of handleVectorMessages4: "release = False; if rvector
\* is not None and rvector in self.keepresult:" leads to the polling loop,
\* anything else to "with self.socklock:"
EntryPc(rvector) ==
  IF rvector # None /\ rvector \in DOMAIN keepresult THEN "poll" ELSE "with"

\* whether keepresult holds a stored reply for rvector (observed when the
\* call is made, kept in the thread's hit field)
StoredFor(rvector) ==
  /\ rvector # None
  /\ rvector \in DOMAIN keepresult
  /\ keepresult[rvector] # NoneMsg

\* "vector = self.vector; self.vector = self.vector + 1; return vector" and
\* the end of "with self.vectorlock".  Async, Callback and Discard return the
\* vector; Block goes on to handleVectorMessages4(rvector = vector, block = True)
\* with the vector read at the start of sendVectorMessageWithMode4, and
\* executes its first statement.
S3Increment(t) ==
  /\ th[t].pc = "s3_inc"
  /\ vector' = NextVector(vector)
  /\ vectorlock' = Release(vectorlock)
  /\ th' = [th EXCEPT ![t] =
              IF th[t].mode = Block
                THEN [@ EXCEPT !.pc = EntryPc(th[t].vector),
                               !.rvector = th[t].vector,
                               !.block = TRUE,
                               !.release = FALSE,
                               !.hit = StoredFor(th[t].vector)]
                ELSE IdleThread]
  /\ UNCHANGED <<framevars, keepresult, callback, socklock, slowlock, slow,
                 oubuf, oubufsz, peervars, lat, obsvars>>

(***************************************************************************)
(* The peer: another endpoint that sends vector messages with whatever     *)
(* rvector it chooses (a reply, a duplicate, or 0 for "not a reply"), may  *)
(* close the stream, and may raise an exceptional condition on it.         *)
(***************************************************************************)
PeerSendVector ==
  \E rv \in 0..(MaxSends - 1) :
    /\ sock_state = "open"
    /\ peer_vector < MaxPeerMsgs
    /\ sock_in' = sock_in \o Frame2(VectorPayload(peer_vector, rv, PeerItem))
    /\ peer_vector' = peer_vector + 1
    /\ UNCHANGED <<inbuf, inbuf_cursz, obs2vars, endvars, sock_state, sock_out,
                   th, lat, obsvars>>

PeerClose ==
  /\ sock_state = "open"
  /\ sock_state' = "eof"
  /\ UNCHANGED <<framevars, endvars, sock_out, peer_vector, th, lat, obsvars>>

PeerUrgent ==
  /\ sock_state = "open"
  /\ sock_state' = "exc"
  /\ UNCHANGED <<framevars, endvars, sock_out, peer_vector, th, lat, obsvars>>

(***************************************************************************)
(* Layer 4, receiving: handleVectorMessages4(rvector, block).              *)
(***************************************************************************)
\* the end of a call that returns message m: the thread is idle again, the
\* return is observed with the vector awaited, the way it was found and
\* whether the awaited vector still has an entry in the table kr left behind
Returned(t, m, via, kr) ==
  /\ th' = [th EXCEPT ![t] = IdleThread]
  /\ rets' = rets \cup {[t       |-> t,
                          awaited |-> th[t].rvector,
                          m       |-> m,
                          via     |-> via,
                          blk     |-> th[t].mode = Block,
                          left    |-> th[t].rvector \in DOMAIN kr]}

\* the end of a call that returns None or raises (how: "none", "KeyError",
\* "ConnectionLost")
Ended(t, how) == th' = [th EXCEPT ![t] = IdleThread]

\* the vectors thread t got back from its Async sends and has not yet
\* received a reply for
AsyncPending(t) ==
  {enq[i].fv : i \in {j \in DOMAIN enq : enq[j].t = t /\ enq[j].mode = Async}}
    \ {r.awaited : r \in rets}

\* a caller calls handleVectorMessages4: to receive and dispatch
\* (rvector = None), or to fetch the reply of one of its Async sends;
\* blocking or not
StartHandle(t) ==
  \E rvector \in {None} \cup AsyncPending(t), block \in BOOLEAN :
    /\ th[t].pc = "idle"
    /\ th' = [th EXCEPT ![t] =
                [IdleThread EXCEPT !.pc = EntryPc(rvector), !.rvector = rvector,
                                   !.block = block,
                                   !.hit = StoredFor(rvector)]]
    /\ UNCHANGED <<framevars, endvars, peervars, lat, obsvars>>

\* "while not self.socklock.acquire(False):" succeeds: "release = True"
PollAcquire(t) ==
  /\ th[t].pc = "poll"
  /\ CanAcquire(socklock, t)
  /\ socklock' = Acquire(socklock, t)
  /\ th' = [th EXCEPT ![t].release = TRUE, ![t].pc = "with"]
  /\ UNCHANGED <<framevars, vector, keepresult, callback, vectorlock, slowlock,
                 slow, oubuf, oubufsz, peervars, lat, obsvars>>

\* the acquire fails and the body of the polling loop runs:
\* "if self.keepresult[rvector] is not None: ret = self.keepresult[rvector]",
\* else "time.sleep(0.01)"; a missing key raises KeyError
PollCheck(t) ==
  /\ th[t].pc = "poll"
  /\ ~CanAcquire(socklock, t)
  /\ IF th[t].rvector \notin DOMAIN keepresult
       THEN Ended(t, "KeyError")
     ELSE IF keepresult[th[t].rvector] # NoneMsg
       THEN th' = [th EXCEPT ![t].ret = keepresult[th[t].rvector],
                             ![t].pc = "poll_del"]
     ELSE UNCHANGED th
  /\ UNCHANGED <<framevars, endvars, peervars, lat, obsvars>>

\* "del self.keepresult[rvector]; return ret", without the lock
PollDel(t) ==
  /\ th[t].pc = "poll_del"
  /\ IF th[t].rvector \notin DOMAIN keepresult
       THEN /\ Ended(t, "KeyError")
            /\ UNCHANGED <<keepresult, rets>>
       ELSE /\ keepresult' = Del(keepresult, th[t].rvector)
            /\ Returned(t, th[t].ret, "poll", keepresult')
  /\ UNCHANGED <<framevars, vector, callback, socklock, vectorlock, slowlock,
                 slow, oubuf, oubufsz, peervars, lat, enq, disp, cbcalls, connlog>>

\* "with self.socklock:" and the final check under the lock: return the
\* stored reply (leaving the with block releases the lock once), else
\* "if release: self.socklock.release()" and on to the loop
HWith(t) ==
  /\ th[t].pc = "with"
  /\ CanAcquire(socklock, t)
  /\ IF /\ th[t].rvector # None
        /\ th[t].rvector \in DOMAIN keepresult
        /\ keepresult[th[t].rvector] # NoneMsg
       THEN /\ keepresult' = Del(keepresult, th[t].rvector)
            /\ socklock' = Release(Acquire(socklock, t))
            /\ Returned(t, keepresult[th[t].rvector], "final", keepresult')
       ELSE /\ socklock' = IF th[t].release THEN socklock
                                            ELSE Acquire(socklock, t)
            /\ th' = [th EXCEPT ![t].pc = "select"]
            /\ UNCHANGED <<keepresult, rets>>
  /\ UNCHANGED <<framevars, vector, callback, vectorlock, slowlock, slow, oubuf,
                 oubufsz, peervars, lat, enq, disp, cbcalls, connlog>>

\* what select reports
Readable == sock_in # <<>> \/ sock_state = "eof"

Writable == oubufsz > 0

Exceptional == sock_state = "exc"

\* the data the handler goes on with after "data = self.sock.recv(4096)":
\* the bare except also catches the ConnectionLostException raised for a
\* zero-length read and sets data = None (written <<>>: nothing is fed)
RecvData(n) == Take(sock_in, Min(n, Len(sock_in)))

\* one pass of the loop up to "for msg in self.getAllVectorMessages3(data):"
\* select (blocking when block is set), the exceptional case, the read, the
\* send1(block = False) for a writable socket (it takes slowlock and, having
\* no data, does nothing else), and the parse of the messages.  With no
\* complete message the pass ends here: ret is None, so a non-blocking call
\* returns None (leaving the with block) and a blocking one selects again.
HSelect(t) ==
  /\ th[t].pc = "select"
  /\ th[t].block => (Readable \/ Writable \/ Exceptional)
  /\ IF Exceptional
       THEN /\ socklock' = Release(socklock)
            /\ Ended(t, "ConnectionLost")
            /\ UNCHANGED connlog
            /\ UNCHANGED <<inbuf, inbuf_cursz, sock_in>>
       ELSE \E n \in RecvSizes4 :
              LET data == IF Readable THEN RecvData(n) ELSE <<>>
                  g    == getAllVectorMessages3(inbuf, inbuf_cursz, data)
              IN  /\ Writable => slowlock = "free"
                  /\ connlog' = IF Readable /\ data = <<>>
                                  THEN connlog \cup {[cause  |-> "zero",
                                                      raised |-> FALSE]}
                                  ELSE connlog
                  /\ sock_in' = Drop(sock_in, Len(data))
                  /\ inbuf' = g.inbuf
                  /\ inbuf_cursz' = g.cursz
                  /\ IF g.msgs # <<>>
                       THEN /\ th' = [th EXCEPT ![t].pc = "dispatch",
                                                ![t].ret = NoneMsg,
                                                ![t].msgs = g.msgs]
                            /\ UNCHANGED socklock
                     ELSE IF ~th[t].block
                       THEN /\ socklock' = Release(socklock)
                            /\ Ended(t, "none")
                     ELSE /\ UNCHANGED <<th, socklock>>
  /\ UNCHANGED <<obs2vars, vector, keepresult, callback, vectorlock, slowlock,
                 slow, oubuf, oubufsz, peervars, lat, enq, disp, cbcalls, rets>>

\* the branch a message takes in the loop body, as a bug would have it: the
\* callback table is consulted before the stored replies
RouteCallbackFirst(rv, rvector, kr, cb) ==
  IF rv = rvector THEN "return"
  ELSE IF rv \in DOMAIN cb THEN "callback"
  ELSE IF rv \in DOMAIN kr THEN "store"
  ELSE "discard"

\* the branch a message with reply vector rv takes in the loop body
Route(rv, rvector, kr, cb) ==
  IF rv = rvector THEN "return"
  ELSE IF rv \in DOMAIN kr THEN "store"
  ELSE IF rv \in DOMAIN cb THEN "callback"
  ELSE "discard"

\* what is left of the batch after a message, as a bug would have it: the
\* loop is left as soon as the awaited reply is found
RestAfterBreak(route, msgs) == IF route = "return" THEN <<>> ELSE Tail(msgs)

\* what is left of the batch after a message: every branch of the loop body
\* ends in "continue", so the for loop goes on with the next message
RestAfter(route, msgs) == Tail(msgs)

\* the loop body for the next message of the batch
HDispatch(t) ==
  /\ th[t].pc = "dispatch"
  /\ th[t].msgs # <<>>
  /\ LET m     == Head(th[t].msgs)
         rv    == m[2]
         route == Route(rv, th[t].rvector, keepresult, callback)
     IN  /\ th' = [th EXCEPT ![t].msgs = RestAfter(route, @),
                             ![t].ret = IF route = "return" THEN m ELSE @]
         /\ keepresult' = IF route = "store" THEN Put(keepresult, rv, m)
                          ELSE keepresult
         /\ callback' = IF route = "callback" THEN Del(callback, rv)
                        ELSE callback
         /\ cbcalls' = IF route = "callback"
                         THEN Append(cbcalls, [ud  |-> callback[rv],
                                               v   |-> m[1],
                                               rv  |-> rv,
                                               msg |-> m[3]])
                         ELSE cbcalls
         /\ disp' = Append(disp, [m    |-> m,
                                  pend |-> rv \in DOMAIN keepresult,
                                  cb   |-> rv \in DOMAIN callback])
  /\ UNCHANGED <<framevars, vector, socklock, vectorlock, slowlock, slow, oubuf,
                 oubufsz, peervars, lat, enq, rets, connlog>>

\* after the batch: "if ret is not None: return ret", "if block is False:
\* break", else the next pass; leaving the with block releases the lock once
HAfter(t) ==
  /\ th[t].pc = "dispatch"
  /\ th[t].msgs = <<>>
  /\ IF th[t].ret # NoneMsg
       THEN /\ socklock' = Release(socklock)
            /\ Returned(t, th[t].ret, "read", keepresult)
     ELSE IF ~th[t].block
       THEN /\ socklock' = Release(socklock)
            /\ Ended(t, "none")
            /\ UNCHANGED rets
     ELSE /\ th' = [th EXCEPT ![t].pc = "select"]
          /\ UNCHANGED <<socklock, rets>>
  /\ UNCHANGED <<framevars, vector, keepresult, callback, vectorlock, slowlock,
                 slow, oubuf, oubufsz, peervars, lat, enq, disp, cbcalls, connlog>>

(***************************************************************************)
(* The latency thread (__latencySimThread) and the drainer (__send1).      *)
(***************************************************************************)
\* the numbers of bytes one sock.send may accept: a short write, a full one
SendSizes == {12, RecvBufSize}

\* the chunks of s at the positions in S, in order
RECURSIVE Pick(_, _, _)
Pick(s, S, i) ==
  IF i > Len(s) THEN <<>>
  ELSE (IF i \in S THEN <<s[i]>> ELSE <<>>) \o Pick(s, S, i + 1)

RECURSIVE TotalLen(_)
TotalLen(chunks) ==
  IF chunks = <<>> THEN 0 ELSE Len(Head(chunks)) + TotalLen(Tail(chunks))

\* under slowlock: every item of self.slow older than 2 s moves to the right
\* end of self.oubuf.  The age is tested item by item against a clock that
\* runs on, so the items that move are some of the items, in their order.
LatencyMove ==
  \E S \in (SUBSET (1..Len(slow))) \ {{}} :
    /\ lat.pc = "sleep"
    /\ slowlock = "free"
    /\ oubuf' = oubuf \o Pick(slow, S, 1)
    /\ oubufsz' = oubufsz + TotalLen(Pick(slow, S, 1))
    /\ slow' = Pick(slow, (1..Len(slow)) \ S, 1)
    /\ UNCHANGED <<framevars, vector, keepresult, callback, socklock, vectorlock,
                   slowlock, peervars, th, lat, obsvars>>

\* "if self.getOutBufferSize1() > 0: self.__send1(None, False)" up to
\* "with self.socklock and self.slowlock:", which takes slowlock alone
DrainBegin ==
  /\ lat.pc = "sleep"
  /\ oubufsz > 0
  /\ slowlock = "free"
  /\ slowlock' = "latency"
  /\ lat' = [lat EXCEPT !.pc = "loop"]
  /\ UNCHANGED <<framevars, vector, keepresult, callback, socklock, vectorlock,
                 slow, oubuf, oubufsz, peervars, th, obsvars>>

\* "while len(self.oubuf) > 0: data = self.oubuf.popleft()", or the end
DrainPop ==
  /\ lat.pc = "loop"
  /\ IF oubuf = <<>>
       THEN /\ slowlock' = "free"
            /\ lat' = IdleLatency
            /\ UNCHANGED oubuf
       ELSE /\ lat' = [pc |-> "send", data |-> Head(oubuf), totalsent |-> 0]
            /\ oubuf' = Tail(oubuf)
            /\ UNCHANGED slowlock
  /\ UNCHANGED <<framevars, vector, keepresult, callback, socklock, vectorlock,
                 slow, oubufsz, peervars, th, obsvars>>

\* one "sent = self.sock.send(data[totalsent:])": some bytes are written, and
\* after the last byte of the chunk "self.oubufsz = self.oubufsz - totalsent"
DrainSend ==
  \E n \in SendSizes :
    /\ lat.pc = "send"
    /\ LET sent  == Min(n, Len(lat.data) - lat.totalsent)
           total == lat.totalsent + sent
       IN  /\ sock_out' = sock_out \o SubSeq(lat.data, lat.totalsent + 1, total)
           /\ IF total < Len(lat.data)
                THEN /\ lat' = [lat EXCEPT !.totalsent = total]
                     /\ UNCHANGED oubufsz
                ELSE /\ lat' = [pc |-> "loop", data |-> <<>>, totalsent |-> 0]
                     /\ oubufsz' = oubufsz - total
    /\ UNCHANGED <<framevars, vector, keepresult, callback, socklock, vectorlock,
                   slowlock, slow, oubuf, sock_state, peer_vector, th, obsvars>>

\* the put-back as a bug would have it: the remainder joins the right end
PutBackRight(rest, q) == q \o <<rest>>

\* self.oubuf.appendleft(data[totalsent:])
PutBack(rest, q) == <<rest>> \o q

\* sock.send raises socket.error or returns 0: the rest of the chunk goes
\* back to the left end of self.oubuf and __send1 returns
DrainFail ==
  /\ lat.pc = "send"
  /\ oubuf' = PutBack(Drop(lat.data, lat.totalsent), oubuf)
  /\ oubufsz' = oubufsz - lat.totalsent
  /\ slowlock' = "free"
  /\ lat' = IdleLatency
  /\ UNCHANGED <<framevars, vector, keepresult, callback, socklock, vectorlock,
                 slow, peervars, th, obsvars>>

(***************************************************************************)
(* Spec: the endpoint with its caller threads and the peer, while the      *)
(* latency thread sleeps (what was sent waits in self.slow, the output     *)
(* deque is empty).                                                        *)
(***************************************************************************)
Init == InitFrame

Next ==
  \/ \E t \in Threads : StartSend(t)
  \/ \E t \in Threads : Register(t)
  \/ \E t \in Threads : S3Enqueue(t)
  \/ \E t \in Threads : S3Increment(t)
  \/ \E t \in Threads : StartHandle(t)
  \/ \E t \in Threads : PollAcquire(t)
  \/ \E t \in Threads : PollCheck(t)
  \/ \E t \in Threads : PollDel(t)
  \/ \E t \in Threads : HWith(t)
  \/ \E t \in Threads : HSelect(t)
  \/ \E t \in Threads : HDispatch(t)
  \/ \E t \in Threads : HAfter(t)
  \/ PeerSendVector
  \/ PeerClose
  \/ PeerUrgent

Spec == Init /\ [][Next]_vars

(***************************************************************************)
(* SpecOut: the endpoint with its caller threads, the latency thread and   *)
(* the drainer, while the peer is silent (no message arrives, so nothing   *)
(* is dispatched, stored or returned).                                     *)
(***************************************************************************)
NextOut ==
  \/ \E t \in Threads : StartSend(t)
  \/ \E t \in Threads : Register(t)
  \/ \E t \in Threads : S3Enqueue(t)
  \/ \E t \in Threads : S3Increment(t)
  \/ \E t \in Threads : StartHandle(t)
  \/ \E t \in Threads : PollAcquire(t)
  \/ \E t \in Threads : PollCheck(t)
  \/ \E t \in Threads : HWith(t)
  \/ \E t \in Threads : HSelect(t)
  \/ \E t \in Threads : SendMisuse(t)
  \/ LatencyMove
  \/ DrainBegin
  \/ DrainPop
  \/ DrainSend
  \/ DrainFail

SpecOut == Init /\ [][NextOut]_vars

(***************************************************************************)
(* SpecLive: the worker threads of tcss.py, each making Block-mode sends,  *)
(* and a peer that answers every request frame in the order of the         *)
(* requests with rvector set to the request's vector; the connection stays *)
(* up.  The threads and the peer are scheduled fairly: a step of a caller  *)
(* inside a call, or of the peer, that stays possible is taken.            *)
(***************************************************************************)
\* ClientWorkThread: c.sendVectorMessageWithMode4(work, mode = IOMode.Block),
\* "vector = self.vector"
StartBlockSend(t) ==
  /\ th[t].pc = "idle"
  /\ SendsStarted < MaxSends
  /\ th' = [th EXCEPT ![t] =
              [IdleThread EXCEPT !.pc = "reg", !.mode = Block,
                                 !.vector = vector]]
  /\ UNCHANGED <<framevars, endvars, peervars, lat, obsvars>>

\* ServerEntry: the peer works on the next request it received and sends
\* the result back with rvector = the vector of the request
PeerReply ==
  /\ sock_state = "open"
  /\ peer_vector < Len(enq)
  /\ sock_in' = sock_in \o Frame2(VectorPayload(peer_vector,
                                                 enq[peer_vector + 1].fv,
                                                 PeerItem))
  /\ peer_vector' = peer_vector + 1
  /\ UNCHANGED <<inbuf, inbuf_cursz, obs2vars, endvars, sock_state, sock_out,
                 th, lat, obsvars>>

\* a step of thread t inside a call it has started
CallerStep(t) ==
  \/ Register(t)
  \/ S3Enqueue(t)
  \/ S3Increment(t)
  \/ PollAcquire(t)
  \/ PollCheck(t)
  \/ PollDel(t)
  \/ HWith(t)
  \/ HSelect(t)
  \/ HDispatch(t)
  \/ HAfter(t)

NextLive ==
  \/ \E t \in Threads : StartBlockSend(t)
  \/ \E t \in Threads : CallerStep(t)
  \/ PeerReply

SpecLive ==
  /\ Init
  /\ [][NextLive]_vars
  /\ \A t \in Threads : WF_vars(CallerStep(t))
  /\ WF_vars(PeerReply)

(***************************************************************************)
(* Claims about the layer-2 assembler, checked under SpecFrame.            *)
(***************************************************************************)

\* C3: once every byte the peer framed has been fed (in whatever pieces) and
\* getAllMessages2 has run on the last piece, the payloads returned are
\* exactly the payloads framed, in order.
C3_AllPayloadsReassembled ==
  (sock_in = <<>> /\ call2.op = "getAllMessages2") => got2 = sent2

\* C4: a getMessage2 call that starts header-pending with at least the 4
\* prefix bytes buffered reads the size: it returns the message or leaves
\* the header-pending state; a zero-length message needs no further byte.
C4_HeaderReadWithFourBytes ==
  (call2.op = "getMessage2" /\ call2.cursz = None /\ call2.tell >= hdrsz)
    => (ret2.some \/ inbuf_cursz # None)

(***************************************************************************)
(* Claims about sending, checked under Spec.                               *)
(***************************************************************************)
\* the vector carried by a frame: bytes 5..12, after the length prefix
FrameVector(chunk) == UnpackQ(SubSeq(chunk, hdrsz + 1, hdrsz + 8))

\* a chunk that is exactly one frame: length prefix, vector header, payload
IsOneFrame(chunk) ==
  /\ Len(chunk) >= hdrsz + vhdrsz
  /\ UnpackI(Take(chunk, hdrsz)) = Len(chunk) - hdrsz

\* C1: when the frame of a Block, Async or Callback send is enqueued, the
\* table already holds an entry (of that mode's kind) keyed by the vector
\* written into the frame, that vector is the one the sender registered and
\* awaits, and no two senders registered under the same vector.
C1_EntryRegisteredBeforeEnqueue ==
  /\ \A i \in DOMAIN enq :
       enq[i].mode # Discard => (enq[i].had /\ enq[i].reg = enq[i].fv)
  /\ \A i, j \in DOMAIN enq :
       (i < j /\ enq[i].mode # Discard /\ enq[j].mode # Discard)
         => enq[i].reg # enq[j].reg

\* C2: the chunks handed to layer 1 are whole frames, one per send, and the
\* vectors they carry are strictly increasing in enqueue order (so no vector
\* is used twice); the vector each send returns is the one in its frame.
C2_VectorsStrictlyIncreasing ==
  /\ Len(slow) = Len(enq)
  /\ \A i \in DOMAIN slow :
       /\ IsOneFrame(slow[i])
       /\ slow[i] = enq[i].data
       /\ FrameVector(slow[i]) = enq[i].fv
  /\ \A i, j \in DOMAIN slow :
       i < j => FrameVector(slow[i]) < FrameVector(slow[j])

\* two different threads have sent, and the second read the counter before
\* the first had advanced it: the senders were concurrent
C2_Witness ==
  /\ Len(slow) = 2
  /\ enq[1].t # enq[2].t
  /\ enq[1].reg = enq[2].reg

(***************************************************************************)
(* Claims about receiving and dispatching, checked under Spec.             *)
(***************************************************************************)
\* C5: a Block-mode call awaiting v returns a message whose rvector is v and
\* leaves no entry for v in the table, however the reply was found (read by
\* the caller itself, or stored by another caller).
C5_BlockReturnRemovesEntry ==
  \A r \in rets : r.blk => (r.m[2] = r.awaited /\ ~r.left)

\* C6: a message with rvector = 0 is not a reply: it is never returned to a
\* waiter, never stored in a pending entry and never given to a callback.
C6_ZeroRvectorNeverDelivered ==
  /\ \A r \in rets : r.m[2] # 0
  /\ \A t \in Threads : th[t].ret = NoneMsg \/ th[t].ret[2] # 0
  /\ \A k \in DOMAIN keepresult : keepresult[k] = NoneMsg \/ keepresult[k][2] # 0
  /\ \A i \in DOMAIN cbcalls : cbcalls[i].rv # 0

\* the thread that dispatches message m in this step
Dispatcher(m) ==
  CHOOSE t \in Threads :
    /\ th[t].pc = "dispatch"
    /\ th[t].msgs # <<>>
    /\ Head(th[t].msgs) = m
    /\ th'[t].msgs = Tail(th[t].msgs)

\* C7: every message the dispatcher processes goes to exactly one
\* destination, by the table state at that moment: the caller's return
\* value if its rvector is the awaited vector; else the stored slot if
\* keepresult has an entry for it; else the callback if one is registered
\* for it (which is invoked and removed); else it is discarded.
C7_DispatchRoutes ==
  [][Len(disp') = Len(disp) + 1 =>
       LET m       == disp'[Len(disp')].m
           rv      == m[2]
           t       == Dispatcher(m)
           toRet   == th'[t].ret = m
           sameRet == th'[t].ret = th[t].ret
           toSlot  == keepresult' = Put(keepresult, rv, m)
           sameKr  == keepresult' = keepresult
           toCb    == /\ cbcalls' = Append(cbcalls, [ud  |-> callback[rv],
                                                     v   |-> m[1],
                                                     rv  |-> rv,
                                                     msg |-> m[3]])
                      /\ callback' = Del(callback, rv)
           sameCb  == cbcalls' = cbcalls /\ callback' = callback
       IN  IF th[t].rvector # None /\ rv = th[t].rvector
             THEN toRet /\ sameKr /\ sameCb
           ELSE IF rv \in DOMAIN keepresult
             THEN toSlot /\ sameRet /\ sameCb
           ELSE IF rv \in DOMAIN callback
             THEN toCb /\ sameRet /\ sameKr
           ELSE sameRet /\ sameKr /\ sameCb]_vars

\* a message was dispatched while both an awaited entry and a callback entry
\* existed for its rvector, and it went to the stored slot: the order of the
\* two lookups decided
C7_Witness ==
  \E i \in DOMAIN disp :
    /\ disp[i].pend
    /\ disp[i].cb
    /\ disp[i].m[2] \in DOMAIN keepresult
    /\ keepresult[disp[i].m[2]] = disp[i].m
    /\ cbcalls = <<>>

\* message m is still on its way to a caller: in a stored slot, or in the
\* return value of a running call
Held(m) ==
  \/ \E k \in DOMAIN keepresult : keepresult[k] = m
  \/ \E t \in Threads : th[t].ret = m

\* C8: a reply dispatched while keepresult had an entry for its rvector is
\* handed to a caller exactly once: it is returned by at most one retrieval,
\* and until then it is not lost.
C8_ReplyDeliveredOnce ==
  \A i \in DOMAIN disp :
    disp[i].pend =>
      LET got == {r \in rets : r.m = disp[i].m}
      IN  /\ Cardinality(got) <= 1
          /\ got # {} \/ Held(disp[i].m)

\* C9: when a message is dispatched whose rvector is the vector of a
\* Callback send already made, and the callback of that send has not fired
\* yet, the callback fires now, once, with (userdata, vector, rvector, msg)
\* of this message, and the entry is gone afterwards; if it has fired
\* before, it does not fire again.
C9_CallbackFiresOnce ==
  [][Len(disp') = Len(disp) + 1 =>
       LET m     == disp'[Len(disp')].m
           rv    == m[2]
           sends == {i \in DOMAIN enq : enq[i].mode = Callback /\ enq[i].fv = rv}
           fired == {c \in DOMAIN cbcalls : cbcalls[c].rv = rv}
       IN  \A i \in sends :
             /\ rv \notin DOMAIN callback'
             /\ IF fired = {}
                  THEN cbcalls' = Append(cbcalls, [ud  |-> enq[i].t,
                                                   v   |-> m[1],
                                                   rv  |-> rv,
                                                   msg |-> m[3]])
                  ELSE cbcalls' = cbcalls]_vars

\* C10: a zero-length read from a readable socket raises
\* ConnectionLostException to the caller of handleVectorMessages4.
C10_ZeroReadRaises ==
  \A c \in connlog : c.cause = "zero" => c.raised

(***************************************************************************)
(* Claims about the send path and the output queue, checked under SpecOut. *)
(***************************************************************************)
\* C11: a sendVectorMessageWithMode4 call with mode Callback and no callback,
\* or with an unknown mode, raises to its caller and leaves the endpoint as
\* it was: no entry in keepresult or callback, the vector counter not
\* advanced, no chunk enqueued.
C11_MisuseLeavesEndpointUnchanged ==
  [][connlog' # connlog =>
       /\ [cause |-> "misuse", raised |-> TRUE] \in connlog'
       /\ [cause |-> "misuse", raised |-> FALSE] \notin connlog'
       /\ keepresult' = keepresult
       /\ callback' = callback
       /\ vector' = vector
       /\ slow' = slow
       /\ oubuf' = oubuf
       /\ enq' = enq]_vars

\* a misuse was raised on an endpoint with a send in progress and one made
C11_Witness ==
  /\ [cause |-> "misuse", raised |-> TRUE] \in connlog
  /\ Len(enq) = 1
  /\ \E t \in Threads : th[t].pc = "reg"

\* C12: whenever a caller is at the point where it reads getOutBufferSize1
\* (the test before select in handleVectorMessages4), the counter equals the
\* sum of the lengths of the chunks in the output deque, also while the
\* latency thread is inside __send1.
C12_OutBufferSizeIsQueuedSum ==
  \A t \in Threads : th[t].pc = "select" => oubufsz = TotalLen(oubuf)

\* the bytes of the chunks of a queue, in order
RECURSIVE Flatten(_)
Flatten(chunks) ==
  IF chunks = <<>> THEN <<>> ELSE Head(chunks) \o Flatten(Tail(chunks))

\* the bytes queued for the socket and not yet written, in queue order: the
\* unsent part of the chunk __send1 holds, then the chunks of the deque
Unsent == Drop(lat.data, lat.totalsent) \o Flatten(oubuf)

\* sequence a is the beginning of sequence b
IsPrefix(a, b) == Len(a) <= Len(b) /\ SubSeq(b, 1, Len(a)) = a

\* C19: the bytes written to the socket followed by the bytes still queued
\* are always the enqueued bytes in enqueue order: a step of the drainer
\* (pop, full or short write, failure with put-back) moves bytes from the
\* head of the queue to the wire and changes nothing else, and a step that
\* enqueues only adds at the tail.
C19_DrainKeepsOrder ==
  [][/\ IsPrefix(sock_out, sock_out')
     /\ IsPrefix(sock_out \o Unsent, sock_out' \o Unsent')
     /\ (Len(slow') >= Len(slow) =>
           sock_out' \o Unsent' = sock_out \o Unsent)]_vars

\* a write was cut short after some bytes, and the remainder is back at the
\* head of the deque in front of a later chunk
C19_Witness ==
  /\ lat.pc = "sleep"
  /\ sock_out # <<>>
  /\ Len(oubuf) = 2
  /\ Len(oubuf[1]) < Len(oubuf[2])
  /\ oubufsz = TotalLen(oubuf)

(***************************************************************************)
(* Claims about the callers of handleVectorMessages4, checked under Spec.  *)
(***************************************************************************)
\* thread t is inside handleVectorMessages4 before its first pass of the
\* loop: in the polling loop or at "with self.socklock:"
BeforeWait(t) == th[t].pc \in {"poll", "with"}

\* thread u is suspended in select with timeout None: it asked for a
\* blocking wait and the socket has nothing to report
Suspended(u) ==
  /\ th[u].pc = "select"
  /\ th[u].block
  /\ ~(Readable \/ Writable \/ Exceptional)

\* the polling loop of thread t has a stored reply to return
PollHit(t) ==
  /\ th[t].pc = "poll"
  /\ th[t].rvector \in DOMAIN keepresult
  /\ keepresult[th[t].rvector] # NoneMsg

\* C13: a handleVectorMessages4 call with block = False never waits for
\* another caller: it is never held up, with nothing to return, at the
\* endpoint mutex while a different thread owns the mutex and is suspended
\* in a blocking readiness wait.
C13_NonBlockingNeverWaits ==
  \A t \in Threads :
    (BeforeWait(t) /\ ~th[t].block /\ ~PollHit(t)) =>
      ~\E u \in Threads \ {t} : socklock.owner = u /\ Suspended(u)

\* the step ends the call of thread t by returning a stored reply for the
\* vector v it awaits, found without a pass of the loop, and removes the entry
ReturnsStored(t, v) ==
  /\ th'[t].pc = "idle"
  /\ v \notin DOMAIN keepresult'
  /\ sock_in' = sock_in
  /\ \E r \in rets' : /\ r.t = t
                       /\ r.awaited = v
                       /\ r.m[2] = v
                       /\ r.via \in {"poll", "final"}
                       /\ ~r.left

\* C14: a handleVectorMessages4(rvector = v) call made when a reply for v is
\* already stored goes, step by step, from the polling loop or the final
\* check to the return of a stored reply for v, with the entry removed; it
\* never reaches select or recv and never ends any other way.
C14_StoredReplyReturnedAtOnce ==
  [][\A t \in Threads :
       (th[t].hit /\ th'[t] # th[t]) =>
          \/ th'[t].pc \in {"poll", "poll_del", "with"} /\ th'[t].hit
          \/ ReturnsStored(t, th[t].rvector)]_vars

\* the vectors of the frames sent in mode Discard so far
DiscardVectors == {enq[i].fv : i \in {j \in DOMAIN enq : enq[j].mode = Discard}}

\* a step of a Discard send by thread t: no table changes, and the chunk it
\* enqueues carries the vector the call returns (self.vector under the lock)
DiscardSendStep(t) ==
  /\ keepresult' = keepresult
  /\ callback' = callback
  /\ (th[t].pc = "s3" =>
        /\ enq' = Append(enq, enq'[Len(enq')])
        /\ FrameVector(enq'[Len(enq')].data) = enq'[Len(enq')].fv
        /\ enq'[Len(enq')].fv = vector)

\* a dispatch step that drops the message: nothing stored, returned or
\* called
DropStep ==
  /\ keepresult' = keepresult
  /\ callback' = callback
  /\ cbcalls' = cbcalls
  /\ \A t \in Threads : th'[t].ret = th[t].ret

\* C15: a Discard send inserts no entry in keepresult or callback (when its
\* frame is enqueued and when it returns), the vector it returns is the one
\* in its frame, and a message whose rvector is the vector of a Discard
\* frame is dropped by the dispatcher: not stored, not returned, and no
\* callback is invoked.
C15_DiscardLeavesNoTrace ==
  [][(\A t \in Threads :
        (th[t].mode = Discard /\ th'[t] # th[t]) => DiscardSendStep(t))
     /\ ((/\ Len(disp') = Len(disp) + 1
          /\ disp'[Len(disp')].m[2] \in DiscardVectors) => DropStep)]_vars

\* thread t holds the endpoint mutex while it takes the step: it owns it
\* before the step, or the step is its "with self.socklock:" block
HoldsSocklock(t) ==
  \/ socklock.owner = t
  \/ th[t].pc = "with" /\ CanAcquire(socklock, t)

\* C16: keepresult and callback change only in steps of a thread that holds
\* the endpoint mutex (so never while another thread is inside the locked
\* region of the dispatcher).
C16_TableMutatedUnderSocklock ==
  [][(keepresult' # keepresult \/ callback' # callback) =>
       \E t \in Threads : th'[t] # th[t] /\ HoldsSocklock(t)]_vars

\* C17: a caller suspended in the blocking readiness wait (select with
\* timeout None and nothing to report) owns neither the endpoint mutex nor
\* the vector-allocation mutex.
C17_NoMutexHeldWhileSuspended ==
  \A t \in Threads :
    Suspended(t) => (socklock.owner # t /\ vectorlock.owner # t)

\* thread t awaits a vector for which no reply was stored when it called,
\* and a reply is stored for it now: another caller's dispatch deposited it
\* while t was waiting
Deposited(t) == ~th[t].hit /\ StoredFor(th[t].rvector)

\* C18: once another caller's dispatch has stored the reply for the vector
\* a caller awaits, each further step of the awaiting caller leads to the
\* return of a stored reply for that vector: from the polling loop, with the
\* mutex still owned by the other caller, it takes the reply and then
\* returns it; it never goes on to select or recv.
C18_DepositedReplyReturned ==
  [][\A t \in Threads :
       (th'[t] # th[t]) =>
          /\ (BeforeWait(t) /\ Deposited(t)) =>
                \/ /\ th[t].pc = "poll"
                   /\ ~CanAcquire(socklock, t)
                   /\ th'[t].pc = "poll_del"
                   /\ th'[t].ret = keepresult[th[t].rvector]
                \/ CanAcquire(socklock, t) /\ th'[t].pc = "with"
                \/ CanAcquire(socklock, t) /\ ReturnsStored(t, th[t].rvector)
          /\ (th[t].pc = "poll_del" /\ ~th[t].hit) =>
                ReturnsStored(t, th[t].rvector)]_vars

\* C20: every complete message of a read is processed, one after the other,
\* whether or not an earlier message of the batch was the awaited reply: a
\* read leaves no complete message behind in the assembler, a caller with
\* messages left in its batch does nothing but process the next one, and so
\* it returns only when the batch is empty.
C20_WholeBatchProcessed ==
  [][\A t \in Threads :
       (th'[t] # th[t]) =>
          /\ (th[t].pc = "select" /\ th'[t].pc = "dispatch") =>
                getAllVectorMessages3(inbuf', inbuf_cursz', <<>>).msgs = <<>>
          /\ (th[t].pc = "dispatch" /\ th[t].msgs # <<>>) =>
                /\ th'[t].pc = "dispatch"
                /\ th'[t].msgs = Tail(th[t].msgs)
                /\ Len(disp') = Len(disp) + 1
                /\ disp'[Len(disp')].m = Head(th[t].msgs)]_vars

\* the awaited reply was found in a batch and the message after it in the
\* same batch was processed too, before the return
C20_Witness ==
  \E t \in Threads :
    /\ th[t].pc = "dispatch"
    /\ th[t].msgs = <<>>
    /\ th[t].ret # NoneMsg
    /\ Len(disp) >= 2
    /\ disp[Len(disp) - 1].m = th[t].ret
    /\ disp[Len(disp)].m[2] # th[t].rvector

\* C21: the messages are dispatched in the order their frames arrived on the
\* stream, none skipped or repeated, whichever threads ran the dispatcher:
\* the k-th message dispatched is the k-th frame the peer sent (the peer
\* numbers its frames 0, 1, ...), and the callbacks fire in that order.
C21_DispatchInArrivalOrder ==
  /\ \A i \in DOMAIN disp : disp[i].m[1] = i - 1
  /\ \A i, j \in DOMAIN cbcalls : i < j => cbcalls[i].v < cbcalls[j].v

\* two threads took turns: one dispatched the first message and returned
\* with it, the other then read and dispatched the second
C21_Witness ==
  \E t, u \in Threads :
    /\ t # u
    /\ Len(disp) = 2
    /\ \E r \in rets : r.t = u /\ r.via = "read" /\ r.m = disp[1].m
    /\ th[t].pc = "dispatch"
    /\ th[t].msgs = <<>>
    /\ socklock.owner = t

\* C22: a thread that is outside handleVectorMessages4 (it has returned, or
\* the call raised) does not own the endpoint mutex: every way out of the
\* call releases the mutex as often as the call acquired it.
C22_SocklockFreeAfterReturn ==
  \A t \in Threads : th[t].pc = "idle" => socklock.owner # t

(***************************************************************************)
(* Claim about termination, checked under SpecLive.                        *)
(***************************************************************************)
\* the Block-mode call that sent the i-th request frame has returned the
\* reply to that frame
OwnReplyReturned(i) ==
  /\ Len(enq) >= i
  /\ \E r \in rets : r.t = enq[i].t /\ r.blk /\ r.m[2] = enq[i].fv

\* C23: with the threads making Block-mode sends, the peer replying to
\* every request and fair scheduling, every Block-mode call that has sent
\* its request eventually returns the reply to that request.
C23_BlockCallsReturn ==
  \A i \in 1..MaxSends : (Len(enq) >= i) ~> OwnReplyReturned(i)

====
